---------------------------- MODULE Spec2Model ----------------------------
(***************************************************************************)
(* Model of the eyeris analysis orchestrator (src/eyeris_org_app.py, with  *)
(* the same request helpers and device pipeline in src/eyeris_app.py).     *)
(*                                                                         *)
(* Five specifications share this module:                                  *)
(*   SpecExec  one call of post_analysis / get_analysis_result, one loop   *)
(*             iteration per step, for every retry budget and backoff;     *)
(*   Spec      one invocation of analyze_device: the four submit tasks     *)
(*             interleave, then the poll tasks interleave;                 *)
(*   SpecOrg   the "Run Organization Analysis" handler looping over the    *)
(*             device list;                                                *)
(*   SpecSerial the same handler with each device's requests as steps of   *)
(*             their own, to observe which devices are in flight;          *)
(*   SpecWindow the two clock readings from which analyze_device builds    *)
(*             the time window of its requests.                            *)
(*                                                                         *)
(* Python dicts are functions whose domain is the set of keys present;     *)
(* a missing key, None and "" are all falsy and read as "".                *)
(***************************************************************************)
EXTENDS Integers, Sequences, FiniteSets, TLC

VARIABLES
    \* ---- one request helper call (SpecExec) ----
    method,             \* "POST" (post_analysis) or "GET" (get_analysis_result)
    retries,            \* the retries argument
    backoff_factor,     \* the backoff_factor argument
    call,               \* the call's frame: running at an attempt, returned, or raised
    history,            \* ghost: the responses received, one per HTTP attempt
    sleeps,             \* ghost: the asyncio.sleep durations taken, in order
    \* ---- one analyze_device invocation (Spec) ----
    pc,                 \* "post", "get", "returned" or "raised"
    post_tasks,         \* kind -> frame of that kind's post_analysis task
    get_tasks,          \* kind -> frame of that kind's get_analysis_result task
    result_url,         \* kind -> the ids the kind's result_url was built from
    analysis_results,   \* the analysis_results dict
    requests,           \* ghost: number of HTTP requests sent by this invocation
    get_sent,           \* ghost: the <<kind, ids>> of every GET request sent
    \* ---- the organization-wide run (SpecOrg) ----
    device_list,        \* st.session_state.device_list (device ids)
    i,                  \* the loop index of the device being analysed (0-based)
    org_pc,             \* "running", "done" or "crashed"
    org_analysis_results, \* st.session_state.org_analysis_results
    progress,           \* the fraction last given to progress_bar.progress
    attempted,          \* ghost: ids of the devices whose pipeline was started
    resolved,           \* ghost: number of pipelines that returned a result
    \* ---- the organization-wide run, pipeline start and end apart (SpecSerial) ----
    in_flight,          \* ghost: list positions of the devices inside asyncio.run
    request_log,        \* ghost: list position of the device of every request sent
    \* ---- the time window of analyze_device (SpecWindow) ----
    clock,              \* the wall clock, in milliseconds
    now,                \* analyze_device.now
    two_hours_ago,      \* analyze_device.two_hours_ago
    analysis_data,      \* kind -> the analysis_data dict built for its submission
    win_pc,             \* the line analyze_device is about to run
    \* ---- rate limiting ----
    acquired            \* ghost: number of rate-limiter tokens acquired

exec_vars == <<method, retries, backoff_factor, call, history, sleeps>>
dev_vars  == <<pc, post_tasks, get_tasks, result_url, analysis_results, requests, get_sent>>
org_vars  == <<device_list, i, org_pc, org_analysis_results, progress, attempted, resolved>>
serial_vars == <<in_flight, request_log>>
window_vars == <<clock, now, two_hours_ago, analysis_data, win_pc>>
aux_vars  == <<serial_vars, window_vars, acquired>>
vars      == <<exec_vars, dev_vars, org_vars, aux_vars>>

----------------------------------------------------------------------------
(* Bounds of the model *)

MaxRetries == 4         \* retry budgets 0..MaxRetries are explored in SpecExec
MaxBackoff == 2         \* backoff factors 1..MaxBackoff are explored in SpecExec
MaxDevices == 2         \* device lists of 1..MaxDevices entries in SpecOrg
MaxLoggedRequests == 2  \* requests logged per device in SpecSerial
MaxTicks == 4           \* milliseconds that pass during one SpecWindow run

(* Program constants *)

DefaultRetries == 3     \* retries=3
DefaultBackoff == 1     \* backoff_factor=1

analysis_types == <<"Roaming", "Coverage", "Congestion", "Interference">>

Kinds == {analysis_types[n] : n \in 1..Len(analysis_types)}

----------------------------------------------------------------------------
(* Python values *)

EmptyDict == [k \in {} |-> ""]

\* dict.get(key): the value, or None (read as the falsy "") when absent
Get(d, k) == IF k \in DOMAIN d THEN d[k] ELSE ""

Truthy(v) == v # ""

\* mutant: the dict is replaced by one holding the new entry only
Put_Replace(d, k, v) == [x \in {k} |-> v]

\* d[key] = value
Put(d, k, v) == [x \in DOMAIN d \cup {k} |-> IF x = k THEN v ELSE d[x]]

RECURSIVE Pow2(_)
Pow2(n) == IF n = 0 THEN 1 ELSE 2 * Pow2(n - 1)

----------------------------------------------------------------------------
(* What the remote service and the transport can answer to one attempt *)

Http(status, json, text) ==
    [kind |-> "http", status |-> status, json |-> json, text |-> text]

\* an aiohttp.ClientError raised by the request, with its str(e)
ClientError(text) ==
    [kind |-> "client_error", status |-> 0, json |-> EmptyDict, text |-> text]

\* any exception that is not an aiohttp.ClientError (asyncio.TimeoutError of
\* the session's total timeout, a JSON decoding error, ...)
OtherException ==
    [kind |-> "exception", status |-> 0, json |-> EmptyDict, text |-> "TimeoutError"]

\* the job handle the service issues for a submission of the given kind
Handle(analysis_type) ==
    [requestId |-> "r-" \o analysis_type, requestQueueId |-> "q-" \o analysis_type]

\* JSON bodies of a 200 answer to a submission
PostBodies(analysis_type) ==
    { Handle(analysis_type),
      EmptyDict,
      [requestId |-> "r-" \o analysis_type],
      [error |-> "quota exceeded"] }

\* JSON bodies of a 200 answer to a poll
GetBodies == { [response |-> "Number of Issues: 0"] }

OtherStatuses == {500}

ClientErrorTexts == {"Connection refused", "Server disconnected"}

Responses(m, analysis_type) ==
    {Http(200, b, "") : b \in (IF m = "POST" THEN PostBodies(analysis_type) ELSE GetBodies)}
    \cup {Http(429, EmptyDict, "Too Many Requests")}
    \cup {Http(s, EmptyDict, "oops") : s \in OtherStatuses}
    \cup {ClientError(t) : t \in ClientErrorTexts}
    \cup {OtherException}

IsTransient(resp) ==
    \/ resp.kind = "http" /\ resp.status = 429
    \/ resp.kind = "client_error"

----------------------------------------------------------------------------
(* post_analysis and get_analysis_result *)

Running(analysis_type, attempt) ==
    [pc |-> "running", analysis_type |-> analysis_type, attempt |-> attempt]

\* return analysis_type, result
Returned(analysis_type, result) ==
    [pc |-> "returned", analysis_type |-> analysis_type, result |-> result]

\* the exception object asyncio.gather(return_exceptions=True) puts in the list
Raised(analysis_type) ==
    [pc |-> "raised", analysis_type |-> analysis_type]

Finished(c) == c.pc # "running"

\* the call before its first loop iteration: range(0) has no iteration
StartCall(analysis_type, n) ==
    IF n > 0 THEN Running(analysis_type, 0)
    ELSE Returned(analysis_type, [error |-> "Max retries reached"])

\* mutant: the loop runs one iteration too many (range(retries + 1))
NextAttempt_OneTooMany(c, n) ==
    IF c.attempt + 1 < n + 1 THEN Running(c.analysis_type, c.attempt + 1)
    ELSE Returned(c.analysis_type, [error |-> "Max retries reached"])

\* for attempt in range(retries): the next iteration, or the return after the loop
NextAttempt(c, n) ==
    IF c.attempt + 1 < n THEN Running(c.analysis_type, c.attempt + 1)
    ELSE Returned(c.analysis_type, [error |-> "Max retries reached"])

\* mutant: the exponent counts attempts from 1
wait_time_FromOne(bf, attempt) == bf * Pow2(attempt + 1)

\* backoff_factor * (2 ** attempt)
wait_time(bf, attempt) == bf * Pow2(attempt)

\* f"HTTP {response.status}: {await response.text()}"
HttpErrorText(resp) == "HTTP " \o ToString(resp.status) \o ": " \o resp.text

\* mutant: the final-attempt test of the except branch never fires
\* (attempt == retries), so a last transport error falls out of the loop
post_analysis_NoFinalText(c, n, bf, resp) ==
    IF resp.kind = "http" THEN
        IF resp.status = 200 THEN
            [call |-> Returned(c.analysis_type, resp.json), slept |-> <<>>]
        ELSE IF resp.status = 429 THEN
            [call |-> NextAttempt(c, n), slept |-> <<wait_time(bf, c.attempt)>>]
        ELSE
            [call |-> Returned(c.analysis_type, [error |-> HttpErrorText(resp)]),
             slept |-> <<>>]
    ELSE IF resp.kind = "client_error" THEN
        IF c.attempt = n THEN
            [call |-> Returned(c.analysis_type, [error |-> resp.text]), slept |-> <<>>]
        ELSE
            [call |-> NextAttempt(c, n), slept |-> <<wait_time(bf, c.attempt)>>]
    ELSE
        [call |-> Raised(c.analysis_type), slept |-> <<>>]

\* One iteration of the loop of post_analysis on the response resp:
\* the frame after it and the sleeps it took.
post_analysis(c, n, bf, resp) ==
    IF resp.kind = "http" THEN
        IF resp.status = 200 THEN
            [call |-> Returned(c.analysis_type, resp.json), slept |-> <<>>]
        ELSE IF resp.status = 429 THEN
            [call |-> NextAttempt(c, n), slept |-> <<wait_time(bf, c.attempt)>>]
        ELSE
            [call |-> Returned(c.analysis_type, [error |-> HttpErrorText(resp)]),
             slept |-> <<>>]
    ELSE IF resp.kind = "client_error" THEN
        IF c.attempt = n - 1 THEN
            [call |-> Returned(c.analysis_type, [error |-> resp.text]), slept |-> <<>>]
        ELSE
            [call |-> NextAttempt(c, n), slept |-> <<wait_time(bf, c.attempt)>>]
    ELSE
        [call |-> Raised(c.analysis_type), slept |-> <<>>]

\* mutant: a 429 on the final attempt is granted one more attempt
get_analysis_result_ExtraAttempt(c, n, bf, resp) ==
    IF resp.kind = "http" THEN
        IF resp.status = 200 THEN
            [call |-> Returned(c.analysis_type, [data |-> resp.json]), slept |-> <<>>]
        ELSE IF resp.status = 429 THEN
            [call |-> NextAttempt(c, n + 1), slept |-> <<wait_time(bf, c.attempt)>>]
        ELSE
            [call |-> Returned(c.analysis_type, [error |-> HttpErrorText(resp)]),
             slept |-> <<>>]
    ELSE IF resp.kind = "client_error" THEN
        IF c.attempt = n - 1 THEN
            [call |-> Returned(c.analysis_type, [error |-> resp.text]), slept |-> <<>>]
        ELSE
            [call |-> NextAttempt(c, n), slept |-> <<wait_time(bf, c.attempt)>>]
    ELSE
        [call |-> Raised(c.analysis_type), slept |-> <<>>]

\* mutant: every status other than 200 is retried like a 429
get_analysis_result_RetryAll(c, n, bf, resp) ==
    IF resp.kind = "http" THEN
        IF resp.status = 200 THEN
            [call |-> Returned(c.analysis_type, [data |-> resp.json]), slept |-> <<>>]
        ELSE
            [call |-> NextAttempt(c, n), slept |-> <<wait_time(bf, c.attempt)>>]
    ELSE IF resp.kind = "client_error" THEN
        IF c.attempt = n - 1 THEN
            [call |-> Returned(c.analysis_type, [error |-> resp.text]), slept |-> <<>>]
        ELSE
            [call |-> NextAttempt(c, n), slept |-> <<wait_time(bf, c.attempt)>>]
    ELSE
        [call |-> Raised(c.analysis_type), slept |-> <<>>]

\* One iteration of the loop of get_analysis_result on the response resp.
get_analysis_result(c, n, bf, resp) ==
    IF resp.kind = "http" THEN
        IF resp.status = 200 THEN
            [call |-> Returned(c.analysis_type, [data |-> resp.json]), slept |-> <<>>]
        ELSE IF resp.status = 429 THEN
            [call |-> NextAttempt(c, n), slept |-> <<wait_time(bf, c.attempt)>>]
        ELSE
            [call |-> Returned(c.analysis_type, [error |-> HttpErrorText(resp)]),
             slept |-> <<>>]
    ELSE IF resp.kind = "client_error" THEN
        IF c.attempt = n - 1 THEN
            [call |-> Returned(c.analysis_type, [error |-> resp.text]), slept |-> <<>>]
        ELSE
            [call |-> NextAttempt(c, n), slept |-> <<wait_time(bf, c.attempt)>>]
    ELSE
        [call |-> Raised(c.analysis_type), slept |-> <<>>]

Iterate(m, c, n, bf, resp) ==
    IF m = "POST" THEN post_analysis(c, n, bf, resp)
    ELSE get_analysis_result(c, n, bf, resp)

----------------------------------------------------------------------------
(* SpecExec: one call of a request helper *)

SerialIdle ==
    /\ in_flight = {}
    /\ request_log = <<>>

WindowIdle ==
    /\ clock = 0
    /\ now = 0
    /\ two_hours_ago = 0
    /\ analysis_data = EmptyDict
    /\ win_pc = "idle"

\* no request helper, pipeline or handler of the source acquires a
\* rate-limiter token: the count stays at zero
AuxIdle ==
    /\ SerialIdle
    /\ WindowIdle
    /\ acquired = 0

DevIdle ==
    /\ pc = "idle"
    /\ post_tasks = EmptyDict
    /\ get_tasks = EmptyDict
    /\ result_url = EmptyDict
    /\ analysis_results = EmptyDict
    /\ requests = 0
    /\ get_sent = {}

OrgIdle ==
    /\ device_list = <<>>
    /\ i = 0
    /\ org_pc = "idle"
    /\ org_analysis_results = EmptyDict
    /\ progress = [num |-> 0, den |-> 1]
    /\ attempted = <<>>
    /\ resolved = 0

ExecIdle ==
    /\ method = "POST"
    /\ retries = 0
    /\ backoff_factor = 1
    /\ call = Returned("Roaming", EmptyDict)
    /\ history = <<>>
    /\ sleeps = <<>>

ExecInit ==
    /\ method \in {"POST", "GET"}
    /\ retries \in 0..MaxRetries
    /\ backoff_factor \in 1..MaxBackoff
    /\ call = StartCall("Roaming", retries)
    /\ history = <<>>
    /\ sleeps = <<>>
    /\ DevIdle
    /\ OrgIdle
    /\ AuxIdle

\* the attempt-th request is sent and answered by resp
ExecAttempt(resp) ==
    /\ call.pc = "running"
    /\ LET r == Iterate(method, call, retries, backoff_factor, resp) IN
        /\ call' = r.call
        /\ sleeps' = sleeps \o r.slept
    /\ history' = Append(history, resp)
    /\ UNCHANGED <<method, retries, backoff_factor, dev_vars, org_vars, aux_vars>>

ExecOk ==
    \E resp \in Responses(method, call.analysis_type) :
        resp.kind = "http" /\ resp.status = 200 /\ ExecAttempt(resp)

ExecRateLimited ==
    \E resp \in Responses(method, call.analysis_type) :
        resp.kind = "http" /\ resp.status = 429 /\ ExecAttempt(resp)

ExecOtherStatus ==
    \E resp \in Responses(method, call.analysis_type) :
        resp.kind = "http" /\ resp.status \notin {200, 429} /\ ExecAttempt(resp)

ExecClientError ==
    \E resp \in Responses(method, call.analysis_type) :
        resp.kind = "client_error" /\ ExecAttempt(resp)

ExecOtherException ==
    \E resp \in Responses(method, call.analysis_type) :
        resp.kind = "exception" /\ ExecAttempt(resp)

ExecNext ==
    \/ ExecOk
    \/ ExecRateLimited
    \/ ExecOtherStatus
    \/ ExecClientError
    \/ ExecOtherException

SpecExec == ExecInit /\ [][ExecNext]_vars

----------------------------------------------------------------------------
(* analyze_device *)

\* the locals the two result loops build
NoResults ==
    [raised |-> FALSE, analysis_results |-> EmptyDict,
     get_tasks |-> EmptyDict, result_url |-> EmptyDict]

\* the list asyncio.gather returns: the tasks' outcomes in the order of the
\* kinds of analysis_types that have a task
Gathered(tasks) ==
    LET Idx == {n \in 1..Len(analysis_types) : analysis_types[n] \in DOMAIN tasks}
        Rank(n) == Cardinality({m \in Idx : m <= n})
    IN  [r \in 1..Cardinality(Idx) |->
            tasks[analysis_types[CHOOSE n \in Idx : Rank(n) = r]]]

\* mutant: the result url is built with the two ids exchanged
ProcessPostResult_SwappedIds(acc, item) ==
    LET analysis_type == item.analysis_type
        result == item.result
        request_id == Get(result, "requestId")
        request_queue_id == Get(result, "requestQueueId")
    IN  IF Truthy(Get(result, "error")) THEN
            [acc EXCEPT !.analysis_results = Put(@, analysis_type, result)]
        ELSE IF ~Truthy(request_id) \/ ~Truthy(request_queue_id) THEN
            [acc EXCEPT !.analysis_results =
                Put(@, analysis_type, [error |-> "Invalid analysis response"])]
        ELSE
            [acc EXCEPT
                !.result_url = Put(@, analysis_type,
                    [request_id |-> request_queue_id, request_queue_id |-> request_id]),
                !.get_tasks = Put(@, analysis_type, StartCall(analysis_type, DefaultRetries))]

\* mutant: a submission without ids is skipped without being recorded
ProcessPostResult_DropInvalid(acc, item) ==
    LET analysis_type == item.analysis_type
        result == item.result
        request_id == Get(result, "requestId")
        request_queue_id == Get(result, "requestQueueId")
    IN  IF Truthy(Get(result, "error")) THEN
            [acc EXCEPT !.analysis_results = Put(@, analysis_type, result)]
        ELSE IF ~Truthy(request_id) \/ ~Truthy(request_queue_id) THEN
            acc
        ELSE
            [acc EXCEPT
                !.result_url = Put(@, analysis_type,
                    [request_id |-> request_id, request_queue_id |-> request_queue_id]),
                !.get_tasks = Put(@, analysis_type, StartCall(analysis_type, DefaultRetries))]

\* the body of the loop "for analysis_type, result in post_results" for an
\* item that unpacks
ProcessPostResult(acc, item) ==
    LET analysis_type == item.analysis_type
        result == item.result
        request_id == Get(result, "requestId")
        request_queue_id == Get(result, "requestQueueId")
    IN  IF Truthy(Get(result, "error")) THEN
            [acc EXCEPT !.analysis_results = Put(@, analysis_type, result)]
        ELSE IF ~Truthy(request_id) \/ ~Truthy(request_queue_id) THEN
            [acc EXCEPT !.analysis_results =
                Put(@, analysis_type, [error |-> "Invalid analysis response"])]
        ELSE
            [acc EXCEPT
                !.result_url = Put(@, analysis_type,
                    [request_id |-> request_id, request_queue_id |-> request_queue_id]),
                !.get_tasks = Put(@, analysis_type, StartCall(analysis_type, DefaultRetries))]

\* the loop over post_results from its n-th item on; an item that is an
\* exception object cannot be unpacked and the TypeError ends the invocation
RECURSIVE ProcessPostResults(_, _, _)
ProcessPostResults(post_results, n, acc) ==
    IF n > Len(post_results) THEN acc
    ELSE IF post_results[n].pc = "raised" THEN [acc EXCEPT !.raised = TRUE]
    ELSE ProcessPostResults(post_results, n + 1, ProcessPostResult(acc, post_results[n]))

\* the loop "for analysis_type, result in get_results" from its n-th item on
RECURSIVE ProcessGetResults(_, _, _)
ProcessGetResults(get_results, n, acc) ==
    IF n > Len(get_results) THEN acc
    ELSE IF get_results[n].pc = "raised" THEN [acc EXCEPT !.raised = TRUE]
    ELSE ProcessGetResults(get_results, n + 1,
            [acc EXCEPT !.analysis_results =
                Put(@, get_results[n].analysis_type, get_results[n].result)])

AllFinished(tasks) == \A k \in DOMAIN tasks : Finished(tasks[k])

\* what follows the second gather once every poll task has finished
AfterGets(tasks, acc) ==
    LET out == ProcessGetResults(Gathered(tasks), 1, acc)
    IN  [out EXCEPT !.get_tasks = tasks]

\* what follows the first gather once every submit task has finished; with no
\* poll task the second gather returns an empty list at once
AfterPosts(tasks) ==
    LET out == ProcessPostResults(Gathered(tasks), 1, NoResults)
    IN  IF ~out.raised /\ out.get_tasks = EmptyDict THEN AfterGets(EmptyDict, out)
        ELSE out

DevInit ==
    /\ pc = "post"
    /\ post_tasks = [k \in Kinds |-> StartCall(k, DefaultRetries)]
    /\ get_tasks = EmptyDict
    /\ result_url = EmptyDict
    /\ analysis_results = EmptyDict
    /\ requests = 0
    /\ get_sent = {}
    /\ ExecIdle
    /\ OrgIdle
    /\ AuxIdle

\* One attempt of the submit task of kind k is answered by resp; when it was
\* the last running submit task, the first gather returns and the invocation
\* runs on to its next await.
PostAttempt(k, resp) ==
    /\ pc = "post"
    /\ post_tasks[k].pc = "running"
    /\ LET tasks == [post_tasks EXCEPT ![k] =
                        post_analysis(@, DefaultRetries, DefaultBackoff, resp).call]
       IN  /\ post_tasks' = tasks
           /\ requests' = requests + 1
           /\ IF AllFinished(tasks) THEN
                  LET out == AfterPosts(tasks) IN
                    /\ analysis_results' = out.analysis_results
                    /\ get_tasks' = out.get_tasks
                    /\ result_url' = out.result_url
                    /\ pc' = IF out.raised THEN "raised"
                             ELSE IF out.get_tasks = EmptyDict THEN "returned"
                             ELSE "get"
              ELSE UNCHANGED <<analysis_results, get_tasks, result_url, pc>>
    /\ UNCHANGED <<get_sent, exec_vars, org_vars, aux_vars>>

\* One attempt of the poll task of kind k is answered by resp; when it was the
\* last running poll task, the second gather returns and the invocation ends.
GetAttempt(k, resp) ==
    /\ pc = "get"
    /\ k \in DOMAIN get_tasks
    /\ get_tasks[k].pc = "running"
    /\ LET tasks == [get_tasks EXCEPT ![k] =
                        get_analysis_result(@, DefaultRetries, DefaultBackoff, resp).call]
       IN  /\ get_tasks' = tasks
           /\ requests' = requests + 1
           /\ get_sent' = get_sent \cup {<<k, result_url[k]>>}
           /\ IF AllFinished(tasks) THEN
                  LET out == AfterGets(tasks,
                                 [NoResults EXCEPT !.analysis_results = analysis_results])
                  IN  /\ analysis_results' = out.analysis_results
                      /\ pc' = IF out.raised THEN "raised" ELSE "returned"
              ELSE UNCHANGED <<analysis_results, pc>>
    /\ UNCHANGED <<post_tasks, result_url, exec_vars, org_vars, aux_vars>>

Submit == \E k \in Kinds : \E resp \in Responses("POST", k) : PostAttempt(k, resp)

Poll == \E k \in Kinds : \E resp \in Responses("GET", k) : GetAttempt(k, resp)

Next == Submit \/ Poll

Init == DevInit

Spec == Init /\ [][Next]_vars

----------------------------------------------------------------------------
(* The time window of analyze_device *)

\* timedelta(hours=2), in milliseconds
TwoHoursMs == 7200000

\* analysis_type.upper()
Upper(analysis_type) ==
    CASE analysis_type = "Roaming" -> "ROAMING"
      [] analysis_type = "Coverage" -> "COVERAGE"
      [] analysis_type = "Congestion" -> "CONGESTION"
      [] analysis_type = "Interference" -> "INTERFERENCE"

WindowInit ==
    /\ clock = TwoHoursMs
    /\ now = 0
    /\ two_hours_ago = 0
    /\ analysis_data = EmptyDict
    /\ win_pc = "now"
    /\ SerialIdle
    /\ acquired = 0
    /\ ExecIdle
    /\ DevIdle
    /\ OrgIdle

\* a millisecond passes
Tick ==
    /\ clock < TwoHoursMs + MaxTicks
    /\ clock' = clock + 1
    /\ UNCHANGED <<now, two_hours_ago, analysis_data, win_pc,
                   serial_vars, acquired, exec_vars, dev_vars, org_vars>>

\* now = int(datetime.now().timestamp() * 1000)
ReadNow ==
    /\ win_pc = "now"
    /\ now' = clock
    /\ win_pc' = "two_hours_ago"
    /\ UNCHANGED <<clock, two_hours_ago, analysis_data,
                   serial_vars, acquired, exec_vars, dev_vars, org_vars>>

\* two_hours_ago = int((datetime.now() - timedelta(hours=2)).timestamp() * 1000)
ReadTwoHoursAgo ==
    /\ win_pc = "two_hours_ago"
    /\ two_hours_ago' = clock - TwoHoursMs
    /\ win_pc' = "build"
    /\ UNCHANGED <<clock, now, analysis_data,
                   serial_vars, acquired, exec_vars, dev_vars, org_vars>>

\* one iteration of "for analysis_type in analysis_types": the analysis_data
\* of the next kind; the decimal strings str(two_hours_ago) and str(now) are
\* kept as the numbers they denote
BuildRequest ==
    /\ win_pc = "build"
    /\ LET analysis_type == analysis_types[Cardinality(DOMAIN analysis_data) + 1]
           built == Put(analysis_data, analysis_type,
                        [agentId |-> "D1", type |-> Upper(analysis_type),
                         from |-> two_hours_ago, to |-> now])
       IN  /\ analysis_data' = built
           /\ win_pc' = IF DOMAIN built = Kinds THEN "submitted" ELSE "build"
    /\ UNCHANGED <<clock, now, two_hours_ago,
                   serial_vars, acquired, exec_vars, dev_vars, org_vars>>

WindowNext == Tick \/ ReadNow \/ ReadTwoHoursAgo \/ BuildRequest

SpecWindow == WindowInit /\ [][WindowNext]_vars

----------------------------------------------------------------------------
(* The "Run Organization Analysis" handler *)

DeviceIds == {"D1", "D2"}

\* a helper call run to its end on the responses of seq, in order
RECURSIVE RunCall(_, _, _)
RunCall(m, c, seq) ==
    IF Finished(c) \/ seq = <<>> THEN c
    ELSE RunCall(m, Iterate(m, c, DefaultRetries, DefaultBackoff, Head(seq)).call, Tail(seq))

\* asyncio.run(analyze_device(device_id, token)) when the requests of kind k
\* are answered by script[k].post and script[k].get: the frame fields of the
\* invocation when it ends (raised, analysis_results)
analyze_device(script) ==
    LET posts == [k \in Kinds |->
                    RunCall("POST", StartCall(k, DefaultRetries), script[k].post)]
        submitted == AfterPosts(posts)
    IN  IF submitted.raised \/ submitted.get_tasks = EmptyDict THEN submitted
        ELSE AfterGets([k \in DOMAIN submitted.get_tasks |->
                            RunCall("GET", submitted.get_tasks[k], script[k].get)],
                       submitted)

Ok200(m, k) == Http(200, IF m = "POST" THEN Handle(k) ELSE CHOOSE b \in GetBodies : TRUE, "")
Busy429 == Http(429, EmptyDict, "Too Many Requests")
Refused500 == Http(500, EmptyDict, "oops")
Unreachable == ClientError("Connection refused")

\* the answers to the requests of one kind: all fine, or one way of failing
KindScripts(k) ==
    LET ok == [post |-> <<Ok200("POST", k)>>, get |-> <<Ok200("GET", k)>>]
    IN  { ok,
          [ok EXCEPT !.post = <<Refused500>>],
          [ok EXCEPT !.post = <<Busy429, Busy429, Busy429>>],
          [ok EXCEPT !.post = <<Busy429, Unreachable, Unreachable>>],
          [ok EXCEPT !.post = <<Http(200, EmptyDict, "")>>],
          [ok EXCEPT !.post = <<OtherException>>],
          [ok EXCEPT !.get = <<Busy429, Ok200("GET", k)>>],
          [ok EXCEPT !.get = <<Refused500>>],
          [ok EXCEPT !.get = <<Unreachable, OtherException>>] }

\* the answers to the requests of one device: at most one kind is in trouble,
\* or every submit is refused
DeviceScripts ==
    LET AllOk == [k \in Kinds |-> [post |-> <<Ok200("POST", k)>>, get |-> <<Ok200("GET", k)>>]]
    IN  UNION {{[AllOk EXCEPT ![f] = ks] : ks \in KindScripts(f)} : f \in Kinds}
        \cup {[k \in Kinds |-> [post |-> <<Refused500>>, get |-> <<>>]]}

\* mutant: the progress is reported from the loop index without the + 1
ProgressFraction_NoPlusOne(idx, total_devices) ==
    [num |-> idx, den |-> total_devices]

\* (i + 1) / total_devices, as an exact fraction
ProgressFraction(idx, total_devices) ==
    [num |-> idx + 1, den |-> total_devices]

DeviceLists ==
    UNION {[1..n -> DeviceIds] : n \in 1..MaxDevices}

\* the handler has reset the results and the progress bar and enters the loop
OrgInit ==
    /\ device_list \in DeviceLists
    /\ org_analysis_results = EmptyDict
    /\ progress = [num |-> 0, den |-> 1]
    /\ i = 0
    /\ org_pc = "running"
    /\ attempted = <<>>
    /\ resolved = 0
    /\ ExecIdle
    /\ DevIdle
    /\ AuxIdle

\* one iteration of the loop whose analyze_device returns
OrgDeviceReturns(script) ==
    /\ org_pc = "running"
    /\ LET device_id == device_list[i + 1]
           out == analyze_device(script)
       IN  /\ ~out.raised
           /\ attempted' = Append(attempted, device_id)
           /\ org_analysis_results' = Put(org_analysis_results, device_id, out.analysis_results)
           /\ progress' = ProgressFraction(i, Len(device_list))
           /\ resolved' = resolved + 1
    /\ i' = i + 1
    /\ org_pc' = IF i + 1 < Len(device_list) THEN "running" ELSE "done"
    /\ UNCHANGED <<device_list, exec_vars, dev_vars, aux_vars>>

\* one iteration of the loop whose analyze_device raises: nothing catches the
\* exception and it ends the handler
OrgDeviceRaises(script) ==
    /\ org_pc = "running"
    /\ analyze_device(script).raised
    /\ attempted' = Append(attempted, device_list[i + 1])
    /\ org_pc' = "crashed"
    /\ UNCHANGED <<device_list, i, org_analysis_results, progress, resolved,
                   exec_vars, dev_vars, aux_vars>>

OrgReturns == \E script \in DeviceScripts : OrgDeviceReturns(script)

OrgRaises == \E script \in DeviceScripts : OrgDeviceRaises(script)

OrgNext == OrgReturns \/ OrgRaises

SpecOrg == OrgInit /\ [][OrgNext]_vars

----------------------------------------------------------------------------
(* The same handler with the start and the end of each pipeline apart *)

\* mutant: the pipelines are launched without waiting for one another
CanStart_NoWait(running) == TRUE

\* asyncio.run(...) returns only when the pipeline has ended, so the loop
\* reaches the next device only when no pipeline is running
CanStart(running) == running = {}

\* the answers to the requests of one device in the serial run: all fine, one
\* submit refused, or one submit raising past the helper
SerialScripts ==
    LET AllOk == [k \in Kinds |-> [post |-> <<Ok200("POST", k)>>, get |-> <<Ok200("GET", k)>>]]
    IN  { AllOk,
          [AllOk EXCEPT !["Congestion"].post = <<Refused500>>],
          [AllOk EXCEPT !["Roaming"].post = <<OtherException>>] }

LoggedRequests(d) == Cardinality({n \in 1..Len(request_log) : request_log[n] = d})

SerialInit == OrgInit

\* the loop body calls asyncio.run(analyze_device(...)) for the next device
SerialStart ==
    /\ org_pc = "running"
    /\ Len(attempted) < Len(device_list)
    /\ CanStart(in_flight)
    /\ attempted' = Append(attempted, device_list[Len(attempted) + 1])
    /\ in_flight' = in_flight \cup {Len(attempted) + 1}
    /\ UNCHANGED <<device_list, i, org_pc, org_analysis_results, progress, resolved,
                   request_log, window_vars, acquired, exec_vars, dev_vars>>

\* a running pipeline sends one of its requests
SerialRequest ==
    /\ \E d \in in_flight :
          /\ LoggedRequests(d) < MaxLoggedRequests
          /\ request_log' = Append(request_log, d)
    /\ UNCHANGED <<in_flight, org_vars, window_vars, acquired, exec_vars, dev_vars>>

\* a running pipeline returns its result map and the loop body runs on
SerialReturns(script) ==
    /\ \E d \in in_flight :
          LET out == analyze_device(script) IN
            /\ ~out.raised
            /\ in_flight' = in_flight \ {d}
            /\ org_analysis_results' =
                    Put(org_analysis_results, device_list[d], out.analysis_results)
    /\ progress' = ProgressFraction(i, Len(device_list))
    /\ resolved' = resolved + 1
    /\ i' = i + 1
    /\ org_pc' = IF i + 1 < Len(device_list) THEN "running" ELSE "done"
    /\ UNCHANGED <<device_list, attempted, request_log, window_vars, acquired,
                   exec_vars, dev_vars>>

\* a running pipeline raises and the exception ends the handler
SerialRaises(script) ==
    /\ \E d \in in_flight :
          /\ analyze_device(script).raised
          /\ in_flight' = in_flight \ {d}
    /\ org_pc' = "crashed"
    /\ UNCHANGED <<device_list, i, org_analysis_results, progress, resolved, attempted,
                   request_log, window_vars, acquired, exec_vars, dev_vars>>

SerialEnds == \E script \in SerialScripts : SerialReturns(script)

SerialFails == \E script \in SerialScripts : SerialRaises(script)

SerialNext == SerialStart \/ SerialRequest \/ SerialEnds \/ SerialFails

SpecSerial == SerialInit /\ [][SerialNext]_vars

----------------------------------------------------------------------------
(* Properties of the request helpers, checked under SpecExec *)

Last(s) == s[Len(s)]

Is200(resp) == resp.kind = "http" /\ resp.status = 200
Is429(resp) == resp.kind = "http" /\ resp.status = 429
IsOtherStatus(resp) == resp.kind = "http" /\ resp.status \notin {200, 429}
IsClientError(resp) == resp.kind = "client_error"

AllTransient == \A n \in 1..Len(history) : IsTransient(history[n])

MaxRetriesReached == [error |-> "Max retries reached"]

\* As long as every attempt fails transiently the call goes on for exactly
\* `retries` attempts: it is finished iff `retries` attempts were made.
ExactlyRetriesAttempts ==
    AllTransient =>
        /\ Len(history) <= retries
        /\ Finished(call) <=> Len(history) = retries

\* C3 as stated: whenever every one of the `retries` attempts ends in a
\* transient failure (HTTP 429 or a transport error, in any mix), the call
\* returns the failure "Max retries reached" after exactly `retries` attempts.
C3_Original ==
    /\ ExactlyRetriesAttempts
    /\ (AllTransient /\ Finished(call)) =>
            /\ call.pc = "returned"
            /\ call.result = MaxRetriesReached

\* C3 as amended: whenever every one of the `retries` attempts ends in a
\* transient failure, exactly `retries` attempts are made; the call returns
\* "Max retries reached" when the final attempt received HTTP 429 (or when
\* retries = 0) and returns the text of the transport error when the final
\* attempt failed at transport level.
C3_RetryExhaustion ==
    /\ ExactlyRetriesAttempts
    /\ (AllTransient /\ Finished(call)) =>
            /\ call.pc = "returned"
            /\ call.result =
                 IF history # <<>> /\ IsClientError(Last(history))
                 THEN [error |-> Last(history).text]
                 ELSE MaxRetriesReached

\* C3 witness: a budget of three was exhausted by a mix of 429 and transport
\* errors ending in a transport error.
C3_Witness ==
    /\ retries = 3
    /\ Finished(call)
    /\ Len(history) = 3
    /\ Is429(history[1])
    /\ IsClientError(history[2])
    /\ IsClientError(history[3])

\* C4: a transport-level failure on an attempt that is not the final one makes
\* the call sleep the backoff and go on to another attempt; on the final
\* attempt it makes the call return the failure whose reason is the text of
\* that transport error.
C4_TransportFailure ==
    [][ (history' # history /\ IsClientError(Last(history'))) =>
            IF call.attempt < retries - 1
            THEN /\ sleeps' = Append(sleeps, backoff_factor * Pow2(call.attempt))
                 /\ call' = Running(call.analysis_type, call.attempt + 1)
                 /\ call'.attempt < retries
            ELSE /\ sleeps' = sleeps
                 /\ call' = Returned(call.analysis_type, [error |-> Last(history').text])
      ]_vars

\* C4 witness: a transport error was retried and a different transport error
\* on the final attempt was returned as the failure.
C4_Witness ==
    /\ Len(history) = retries
    /\ retries >= 2
    /\ IsClientError(history[1])
    /\ IsClientError(Last(history))
    /\ history[1].text # Last(history).text
    /\ call.pc = "returned"
    /\ call.result = [error |-> Last(history).text]

\* C5: when attempts 1..k-1 receive HTTP 429 and attempt k receives HTTP 200,
\* the call returns success with the parsed body of attempt k after exactly k
\* attempts, and the sleep after the i-th failed attempt was
\* backoff_factor * 2^(i-1).
C5_SuccessAfter429 ==
    (/\ history # <<>>
     /\ Is200(Last(history))
     /\ \A n \in 1..(Len(history) - 1) : Is429(history[n]))
    =>
    /\ Len(history) <= retries
    /\ call.pc = "returned"
    /\ call.result = (IF method = "POST" THEN Last(history).json
                      ELSE [data |-> Last(history).json])
    /\ sleeps = [n \in 1..(Len(history) - 1) |-> backoff_factor * Pow2(n - 1)]

\* C5 witness: two 429 answers, then a 200 on the third attempt.
C5_Witness ==
    /\ Len(history) = 3
    /\ Is429(history[1])
    /\ Is429(history[2])
    /\ Is200(history[3])
    /\ call.pc = "returned"
    /\ sleeps = <<backoff_factor, 2 * backoff_factor>>

\* C6: a response whose status is neither 200 nor 429 ends the call at once
\* with the failure carrying the status code and body: it is the last attempt
\* whatever budget remains, and no sleep follows it.
C6_TerminalStatus ==
    \A n \in 1..Len(history) :
        IsOtherStatus(history[n]) =>
            /\ n = Len(history)
            /\ call = Returned(call.analysis_type,
                               [error |-> "HTTP " \o ToString(history[n].status)
                                          \o ": " \o history[n].text])
            /\ Len(sleeps) = n - 1

\* C6 witness: a 500 on the first attempt of a call with budget left.
C6_Witness ==
    /\ retries >= 2
    /\ Len(history) = 1
    /\ IsOtherStatus(history[1])
    /\ call.pc = "returned"
    /\ sleeps = <<>>

----------------------------------------------------------------------------
----------------------------------------------------------------------------
(* Properties of analyze_device, checked under Spec *)

IsFailure(entry) == Truthy(Get(entry, "error"))

IsSuccess(entry) == "data" \in DOMAIN entry /\ ~Truthy(Get(entry, "error"))

Failures == {k \in DOMAIN analysis_results : IsFailure(analysis_results[k])}

Successes == {k \in DOMAIN analysis_results : IsSuccess(analysis_results[k])}

InvalidAnalysisResponse == [error |-> "Invalid analysis response"]

\* C1: the map an invocation of analyze_device returns has exactly the four
\* keys Roaming, Coverage, Congestion and Interference, whatever the four
\* submits and the polls were answered.
C1_FourEntries ==
    pc = "returned" => DOMAIN analysis_results = Kinds

\* C1 witness: an invocation returned with a kind without ids, a kind that ran
\* out of retries, a kind refused with a status and a kind that succeeded.
C1_Witness ==
    /\ pc = "returned"
    /\ analysis_results["Roaming"] = InvalidAnalysisResponse
    /\ analysis_results["Coverage"] = MaxRetriesReached
    /\ analysis_results["Congestion"] = [error |-> "HTTP 500: oops"]
    /\ IsSuccess(analysis_results["Interference"])

\* the submit of kind k was refused with HTTP 500
SubmitRefused(k) ==
    /\ post_tasks[k].pc = "returned"
    /\ post_tasks[k].result = [error |-> "HTTP 500: oops"]

\* the submit of kind k yielded a handle and its poll returned a payload
SubmitAndPollSucceeded(k) ==
    /\ post_tasks[k].pc = "returned"
    /\ post_tasks[k].result = Handle(k)
    /\ k \in DOMAIN get_tasks
    /\ get_tasks[k].pc = "returned"
    /\ "data" \in DOMAIN get_tasks[k].result

\* C2: a failure of one analysis kind, a fault raised by its submit or poll
\* call included, never aborts the invocation; and when exactly one kind's
\* submit fails with HTTP 500 while the other three succeed, the result has
\* four entries, one failure and three successes.
C2_FailureContained ==
    /\ pc # "raised"
    /\ \A f \in Kinds :
         (/\ pc = "returned"
          /\ SubmitRefused(f)
          /\ \A k \in Kinds \ {f} : SubmitAndPollSucceeded(k))
         => /\ DOMAIN analysis_results = Kinds
            /\ Failures = {f}
            /\ Successes = Kinds \ {f}

\* the submit of kind k was answered 200 with a body lacking one of the ids
SubmitWithoutIds(k) ==
    /\ post_tasks[k].pc = "returned"
    /\ post_tasks[k].result \in PostBodies(k)
    /\ \/ ~Truthy(Get(post_tasks[k].result, "requestId"))
       \/ ~Truthy(Get(post_tasks[k].result, "requestQueueId"))

\* the submit of kind k was answered 200 with a body carrying both ids
SubmitWithIds(k) ==
    /\ post_tasks[k].pc = "returned"
    /\ post_tasks[k].result \in PostBodies(k)
    /\ Truthy(Get(post_tasks[k].result, "requestId"))
    /\ Truthy(Get(post_tasks[k].result, "requestQueueId"))

\* C7: a kind whose submission returns 200 with a body lacking requestId or
\* requestQueueId is recorded as the failure "Invalid analysis response" and
\* no GET is ever sent for it; a GET is sent only for kinds whose submission
\* yielded both ids.
C7_InvalidSubmission ==
    /\ \A k \in Kinds :
         SubmitWithoutIds(k) =>
            /\ \A e \in get_sent : e[1] # k
            /\ pc \in {"get", "returned"} =>
                  /\ k \in DOMAIN analysis_results
                  /\ analysis_results[k] = InvalidAnalysisResponse
    /\ \A e \in get_sent : SubmitWithIds(e[1])

----------------------------------------------------------------------------
(* Properties of the organization-wide run, checked under SpecOrg *)

AllFourFailed(device_result) ==
    /\ DOMAIN device_result = Kinds
    /\ \A k \in Kinds : IsFailure(device_result[k])

\* C8: a device whose pipeline was started is never left absent from the org
\* result, and a device whose pipeline suffered a fault that escaped the
\* per-kind containment is recorded with all four kinds marked failed.
C8_FaultedDeviceRecorded ==
    /\ \A n \in 1..Len(attempted) : attempted[n] \in DOMAIN org_analysis_results
    /\ org_pc = "crashed" =>
          /\ Last(attempted) \in DOMAIN org_analysis_results
          /\ AllFourFailed(org_analysis_results[Last(attempted)])

\* C9: no failure or fault of a device halts the run: when the run is over,
\* the pipeline of every device of the list has been started.
C9_EveryDeviceAttempted ==
    org_pc # "running" => attempted = device_list

FracLeq(a, b) == a.num * b.den <= b.num * a.den

\* C10: over a device list of size M the progress fraction never decreases,
\* equals (number of devices resolved) / M once a device has resolved, is
\* below 1.0 while a device is unresolved and is exactly 1.0 once the M-th
\* device has resolved; a device resolves when its pipeline returns its
\* result map.
C10_Progress ==
    /\ [](/\ progress.num * Len(device_list) = resolved * progress.den
          /\ resolved < Len(device_list) => progress.num < progress.den
          /\ resolved = Len(device_list) => progress.num = progress.den)
    /\ [][FracLeq(progress, progress')]_vars

\* C10 witness: a run over two devices is over, the second device with a
\* failed kind, and the progress stands at 2/2.
C10_Witness ==
    /\ org_pc = "done"
    /\ Len(device_list) = 2
    /\ resolved = 2
    /\ progress = [num |-> 2, den |-> 2]
    /\ \E k \in Kinds : IsFailure(org_analysis_results[device_list[2]][k])

DeviceIdsOf(list) == {list[n] : n \in 1..Len(list)}

\* C11 as stated: once every device's pipeline has terminated with success or
\* contained failure, the org result map has exactly M keys, one per entry of
\* the device list of size M.
C11_Original ==
    org_pc = "done" => Cardinality(DOMAIN org_analysis_results) = Len(device_list)

\* C11 as amended: once every device's pipeline has terminated with success
\* or contained failure, the keys of the org result map are exactly the
\* device ids of the list: one key per distinct id, hence M keys when the M
\* ids of the list are pairwise distinct.
C11_OneKeyPerDeviceId ==
    org_pc = "done" =>
        /\ DOMAIN org_analysis_results = DeviceIdsOf(device_list)
        /\ Cardinality(DeviceIdsOf(device_list)) = Len(device_list)
              => Cardinality(DOMAIN org_analysis_results) = Len(device_list)

\* C11 witness: a run over two devices with distinct ids is over and the org
\* result has its two keys.
C11_Witness ==
    /\ org_pc = "done"
    /\ Len(device_list) = 2
    /\ device_list[1] # device_list[2]
    /\ Cardinality(DOMAIN org_analysis_results) = 2

----------------------------------------------------------------------------
(* Properties of the serial run, checked under SpecSerial *)

\* C12: at every moment at most one device pipeline is mid-flight (the limit
\* N = 1 the serial loop enforces), and no request of a device is sent before
\* the pipeline of every earlier device of the list has ended.
C12_OneDeviceInFlight ==
    /\ [](Cardinality(in_flight) <= 1)
    /\ [][request_log' # request_log =>
            \A e \in 1..(Last(request_log') - 1) :
                e <= Len(attempted) /\ e \notin in_flight]_vars

\* C12 witness: the second device sends a request after the first device,
\* which had sent its own, has returned.
C12_Witness ==
    /\ Len(request_log) >= 2
    /\ request_log[1] = 1
    /\ Last(request_log) = 2
    /\ in_flight = {2}
    /\ resolved = 1

----------------------------------------------------------------------------
(* Further properties of the request helpers, checked under SpecExec *)

\* C13: every HTTP attempt of post_analysis and get_analysis_result, the first
\* and every retry alike, is preceded by the acquisition of one rate-limiter
\* token for it: no more attempts were made than tokens were acquired.
C13_TokenPerAttempt ==
    Len(history) <= acquired

\* C15: a backoff sleep is taken only when another attempt follows it: a call
\* that has ended has slept fewer times than it made attempts, so neither a
\* 429 nor a transport failure on the final attempt is followed by a sleep.
C15_NoSleepAfterFinalAttempt ==
    (Finished(call) /\ history # <<>>) => Len(sleeps) < Len(history)

----------------------------------------------------------------------------
(* Further properties of analyze_device, checked under Spec *)

\* the GET of kind k can be sent now
CanPoll(k) == ENABLED (\E resp \in Responses("GET", k) : GetAttempt(k, resp))

\* C14: once a kind's submit has yielded its handle, the kind's poll can be
\* sent without waiting for any other kind's submit to complete.
C14_PollWaitsForOwnSubmitOnly ==
    \A k \in Kinds :
        (/\ pc \in {"post", "get"}
         /\ SubmitWithIds(k)
         /\ \A e \in get_sent : e[1] # k)
        => CanPoll(k)

\* C17 as stated: one analyze_device invocation sends at most 8 HTTP requests
\* in total, under any sequence of response outcomes.
C17_Original ==
    requests <= 8

\* C17 as amended: one analyze_device invocation makes at most 8 helper calls
\* (four submits and at most four polls), and since each call makes up to
\* retries = 3 attempts it sends at most 24 HTTP requests in total.
C17_AtMostEightCalls ==
    /\ pc # "idle" => Cardinality(DOMAIN post_tasks) = 4
    /\ Cardinality(DOMAIN get_tasks) <= 4
    /\ requests <= 8 * DefaultRetries

\* C17 witness: an invocation returned after 24 requests, every submit and
\* every poll having taken three attempts.
C17_Witness ==
    /\ pc = "returned"
    /\ Cardinality(DOMAIN get_tasks) = 4
    /\ requests = 24

\* the ids the submit of kind k was answered with
IdsOf(k) ==
    [request_id |-> Get(post_tasks[k].result, "requestId"),
     request_queue_id |-> Get(post_tasks[k].result, "requestQueueId")]

\* the poll of kind k was answered 200 and every GET sent for k was addressed
\* with the ids of k's own submit
PolledOwnIds(k) ==
    /\ k \in DOMAIN get_tasks
    /\ get_tasks[k].pc = "returned"
    /\ \E b \in GetBodies : get_tasks[k].result = [data |-> b]
    /\ analysis_results[k] = get_tasks[k].result
    /\ {e \in get_sent : e[1] = k} = {<<k, IdsOf(k)>>}

\* C18: in the map analyze_device returns, a kind is a success only if its own
\* submit was answered 200 with both ids and its own poll, addressed with
\* exactly those ids, was answered 200; the kinds the submit loop records and
\* the kinds that are polled are disjoint, and an entry once written is never
\* changed or removed.
C18_SuccessIsOwn ==
    /\ [](pc = "returned" =>
            \A k \in Successes : SubmitWithIds(k) /\ PolledOwnIds(k))
    /\ [](DOMAIN analysis_results \cap DOMAIN get_tasks # {} =>
            /\ pc \in {"returned", "raised"}
            /\ \A k \in DOMAIN analysis_results \cap DOMAIN get_tasks :
                   analysis_results[k] = get_tasks[k].result)
    /\ [][\A k \in DOMAIN analysis_results :
              /\ k \in DOMAIN analysis_results'
              /\ analysis_results'[k] = analysis_results[k]]_vars

\* C18 witness: a returned map holding a success next to a failure the submit
\* loop recorded.
C18_Witness ==
    /\ pc = "returned"
    /\ Successes # {}
    /\ \E k \in Failures : k \notin DOMAIN get_tasks

----------------------------------------------------------------------------
(* Properties of the time window, checked under SpecWindow *)

\* C16: the four submission requests of one invocation carry the same
\* (from, to) pair, and to - from is exactly two hours in milliseconds,
\* however the clock advances during the invocation.
C16_TwoHourWindow ==
    win_pc = "submitted" =>
        \A k \in Kinds :
            /\ analysis_data[k].from = analysis_data["Roaming"].from
            /\ analysis_data[k].to = analysis_data["Roaming"].to
            /\ analysis_data[k].to - analysis_data[k].from = TwoHoursMs

=============================================================================
